---- MODULE Spec2Model ----
(***************************************************************************)
(* The three metadata-fetch scripts of data-raw/:                          *)
(*   get_bacen_metadata.py         batched download, per-code fallback     *)
(*   get_bacen_metadata_robust.py  per-code download, probe, limit, delay  *)
(*   archive/get_bacen_metadata.py one unguarded download                  *)
(* Each script is a sequential program; one action per remote call or      *)
(* control step.  The remote service (package sgs) is the environment:     *)
(* each call either raises or answers.                                     *)
(***************************************************************************)
EXTENDS Integers, Sequences, FiniteSets, TLC

VARIABLES
    script,             \* which script runs: "batch", "robust" or "archive"
    codes_list,         \* codes["code"].tolist()
    svc,                \* behaviour of the remote service during this run
    pc,                 \* position of the script
    i,                  \* loop variable i of the main for loop
    k,                  \* position of the inner iteration (fallback loop, probe loop)
    batch,              \* codes_list[i:i+batch_size]
    all_data,           \* dict code -> column, in insertion order
    data,               \* pd.DataFrame(all_data) / the archive script's data
    metadata_en,        \* sgs.metadata(data)
    metadata_pt,        \* sgs.metadata(data, language="pt")
    df_meta_en,         \* pd.DataFrame(metadata_en)
    df_meta_pt,         \* pd.DataFrame(metadata_pt)
    successful_series,  \* robust script
    failed_series,      \* robust script
    metadata_list,      \* robust script
    series_data,        \* robust script, the current code's DataFrame
    meta_en,            \* robust script, the current code's English metadata
    meta_pt,            \* robust script, the current code's Portuguese metadata
    files,              \* csv files written, in order
    log,                \* remote calls, sleeps and file writes, in order
    outcome,            \* how the last remote call ended: "none", "ok", "fail"
    hist                \* what the service has done so far (a mock's record)

vars == <<script, codes_list, svc, pc, i, k, batch, all_data, data,
          metadata_en, metadata_pt, df_meta_en, df_meta_pt,
          successful_series, failed_series, metadata_list, series_data,
          meta_en, meta_pt, files, log, outcome, hist>>

----------------------------------------------------------------------------
(* Bounds of the model *)

\* longest input list
MaxLen == 21
\* lists up to this length run against a service that answers every call freely
MaxFlaky == 2
\* identifiers of the short lists; period of the repeating long list
NumIds == 2
\* dates an observation may fall on
NumDates == 2

(* Constants of the scripts *)

batch_size == 10
Limit == 20
ProbeCount == 3
Delay == 1

----------------------------------------------------------------------------
(* Helpers *)

Min(a, b) == IF a <= b THEN a ELSE b

Range(s) == {s[n] : n \in DOMAIN s}

\* Python slice s[lo:hi] (0-based, hi exclusive, clipped to the list)
Slice(s, lo, hi) == SubSeq(s, lo + 1, Min(hi, Len(s)))

(* A DataFrame / dict of columns: a sequence of [code, rows] in column
   (insertion) order; rows is the set of dates the column has a row for.  The
   keys of a dict are distinct; a DataFrame may name a code in two columns. *)

Keys(t) == {t[n].code : n \in DOMAIN t}

Columns(t) == [n \in DOMAIN t |-> t[n].code]

\* d[c] = col for a dict d: replace in place or append
Put(t, col) ==
    IF col.code \in Keys(t)
    THEN [n \in DOMAIN t |-> IF t[n].code = col.code THEN col ELSE t[n]]
    ELSE Append(t, col)

RECURSIVE Update(_, _)
\* dict.update: d[c] = col for each entry of u in turn (the dict after one
\* entry is bound as p, a value, before the next entry is looked at)
Update(t, u) ==
    IF u = <<>> THEN t
    ELSE CHOOSE r \in {Update(p, Tail(u)) : p \in {Put(t, Head(u))}} : TRUE

\* the DataFrame sgs.dataframe(req, ...) returns: one column per requested
\* code, all on the index of the answer
Frame(req, rows) == [n \in DOMAIN req |-> [code |-> req[n], rows |-> rows]]

\* DataFrame.to_dict(): one key per column label, the last column of a label
ToDict(frame) == Update(<<>>, frame)

\* the index of pd.DataFrame(d), of a DataFrame: the union of the columns'
IndexOf(t) == UNION {t[n].rows : n \in DOMAIN t}

\* len(pd.DataFrame(d)), len(frame): the number of rows of the index
DataFrameLen(t) == Cardinality(IndexOf(t))

----------------------------------------------------------------------------
(* The remote service *)

Dates == 1..NumDates

\* the index of an answer: no observation, or one observation on some date
Indexes == {{}} \cup {{d} : d \in Dates}

Fail == [ok |-> FALSE, rows |-> {}]

Answer(rows) == [ok |-> TRUE, rows |-> rows]

DataOutcomes == {Fail} \cup {Answer(r) : r \in Indexes}

MetaShapes == {"none", "partial", "full"}

MetaOutcomes == {"fail"} \cup MetaShapes

Fields == {"title", "unit", "source"}

FieldValue(lang, f) ==
    CASE lang = "en" /\ f = "title"  -> "Title"
      [] lang = "en" /\ f = "unit"   -> "Unit"
      [] lang = "en" /\ f = "source" -> "Source"
      [] lang = "pt" /\ f = "title"  -> "Titulo"
      [] lang = "pt" /\ f = "unit"   -> "Unidade"
      [] lang = "pt" /\ f = "source" -> "Fonte"

\* the descriptive fields a returned dict carries, by shape of the answer
ShapeFields(shape) ==
    CASE shape = "full"        -> Fields
      [] shape = "partial"     -> {"title"}
      [] shape = "unit_only"   -> {"unit"}
      [] shape = "source_only" -> {"source"}
      [] shape = "no_title"    -> {"unit", "source"}
      [] shape = "no_unit"     -> {"title", "source"}
      [] shape = "no_source"   -> {"title", "unit"}
      [] shape = "bare"        -> {}

\* every shape of an answer: the empty list, or one dict per column with any
\* subset of the descriptive fields
RichShapes ==
    {"none", "full", "partial", "unit_only", "source_only", "no_title",
     "no_unit", "no_source", "bare"}

\* one dict of the list sgs.metadata returns
ServiceRecord(code, lang, shape) ==
    [f \in ShapeFields(shape) \cup {"code"} |->
        IF f = "code" THEN code ELSE FieldValue(lang, f)]

\* the list sgs.metadata returns for the columns cols
MetaResponse(cols, lang, shape) ==
    IF shape = "none" THEN <<>>
    ELSE [n \in DOMAIN cols |-> ServiceRecord(cols[n], lang, shape)]

Flaky == [mode |-> "flaky", bad |-> {}, batchDown |-> FALSE,
          metaDown |-> "none", rows |-> {}]

\* as Flaky, with metadata answers of every shape
Rich == [mode |-> "rich", bad |-> {}, batchDown |-> FALSE,
         metaDown |-> "none", rows |-> {}]

\* steady services: requests naming a bad code fail, batched requests fail
\* when batchDown, metadata requests of locale metaDown fail
Steady(codes) ==
    [mode : {"steady"},
     bad : {{}, Range(codes)} \cup {{x} : x \in Range(codes)},
     batchDown : BOOLEAN,
     metaDown : {"none", "en", "pt"},
     rows : Indexes]

Services(codes) == IF Len(codes) <= MaxFlaky THEN {Flaky} ELSE Steady(codes)

\* what sgs.dataframe(req, ...) may do at call site `site`
DataAnswers(site, req) ==
    IF svc.mode \in {"flaky", "rich"} THEN DataOutcomes
    ELSE IF (site = "batch" /\ svc.batchDown) \/ Range(req) \cap svc.bad # {}
         THEN {Fail}
         ELSE {Answer(svc.rows)}

\* what sgs.metadata(frame, language=lang) may do
MetaAnswers(lang) ==
    IF svc.mode = "flaky" THEN MetaOutcomes
    ELSE IF svc.mode = "rich" THEN {"fail"} \cup RichShapes
    ELSE IF svc.metaDown = lang THEN {"fail"} ELSE {"full"}

(* The record of the calls *)

DataCall(site, req) == [ev |-> "data", at |-> site, arg |-> req]
MetaCall(lang, cols) == [ev |-> "meta", at |-> lang, arg |-> cols]
Sleep(secs) == [ev |-> "sleep", at |-> "series", arg |-> <<secs>>]
Write(name) == [ev |-> "write", at |-> name, arg |-> <<>>]

SingleSites == {"single", "probe", "series"}

NoteData(h, site, req, o) ==
    [h EXCEPT
       !.batchAllFail = @ /\ (site = "batch" => ~o.ok),
       !.singleAllOk = @ /\ (site \in SingleSites => o.ok),
       !.dataAllFail = @ /\ ~o.ok,
       !.noEmpty = @ /\ (o.ok => o.rows # {}),
       !.onlyBad = {x \in @ : (x \in Range(req)) <=> ~o.ok}]

NoteMeta(h, cols, o) ==
    [h EXCEPT
       !.metaAllOk = @ /\ (o # "fail"),
       !.onlyBad = {x \in @ : (x \in Range(cols)) <=> (o = "fail")}]

MetaOutcome(o) == IF o = "fail" THEN "fail" ELSE "ok"
DataOutcome(o) == IF o.ok THEN "ok" ELSE "fail"

----------------------------------------------------------------------------
(* Input lists *)

RECURSIVE SeqsUpTo(_, _)
SeqsUpTo(S, n) ==
    IF n = 0 THEN {<<>>}
    ELSE LET shorter == SeqsUpTo(S, n - 1)
         IN  shorter \cup {Append(s, x) : s \in {t \in shorter : Len(t) = n - 1}, x \in S}

Distinct(n) == [m \in 1..n |-> m]

Repeating(n) == [m \in 1..n |-> ((m - 1) % NumIds) + 1]

Lists ==
    SeqsUpTo(1..NumIds, MaxFlaky)
      \cup {Distinct(n) : n \in (MaxFlaky + 1)..MaxLen}
      \cup {Repeating(n) : n \in (MaxFlaky + 1)..MaxLen}

\* where each script stands once codes_list is read
StartPc(s) ==
    CASE s = "batch"   -> "loop"
      [] s = "robust"  -> "probe"
      [] s = "archive" -> "data"

\* the state once codes_list is read, before the first statement that follows
Fresh ==
    /\ pc = StartPc(script)
    /\ i = 0
    /\ k = 0
    /\ batch = <<>>
    /\ all_data = <<>>
    /\ data = <<>>
    /\ metadata_en = <<>>
    /\ metadata_pt = <<>>
    /\ df_meta_en = <<>>
    /\ df_meta_pt = <<>>
    /\ successful_series = <<>>
    /\ failed_series = <<>>
    /\ metadata_list = <<>>
    /\ series_data = <<>>
    /\ meta_en = <<>>
    /\ meta_pt = <<>>
    /\ files = <<>>
    /\ log = <<>>
    /\ outcome = "none"
    /\ hist = [batchAllFail |-> TRUE, singleAllOk |-> TRUE, dataAllFail |-> TRUE,
               noEmpty |-> TRUE, metaAllOk |-> TRUE, onlyBad |-> Range(codes_list)]

Init ==
    /\ script \in {"batch", "robust", "archive"}
    /\ codes_list \in Lists
    /\ svc \in Services(codes_list)
    /\ Fresh

\* the batched script alone
InitBatch ==
    /\ script = "batch"
    /\ codes_list \in Lists
    /\ svc \in Services(codes_list)
    /\ Fresh

\* the per-code script on a one-entry list, metadata answers of every shape
InitRecord ==
    /\ script = "robust"
    /\ codes_list \in {<<c>> : c \in 1..NumIds}
    /\ svc = Rich
    /\ Fresh

----------------------------------------------------------------------------
(* Steps shared by the scripts *)

Called(ev, site, req, o) ==
    /\ log' = Append(log, ev)
    /\ outcome' = DataOutcome(o)
    /\ hist' = NoteData(hist, site, req, o)

CalledMeta(lang, cols, o) ==
    /\ log' = Append(log, MetaCall(lang, cols))
    /\ outcome' = MetaOutcome(o)
    /\ hist' = NoteMeta(hist, cols, o)

\* metadata_en = sgs.metadata(data), outside any try
MetadataEnCall ==
    /\ pc = "meta_en"
    /\ \E o \in MetaAnswers("en") :
         /\ CalledMeta("en", Columns(data), o)
         /\ IF o = "fail"
            THEN /\ pc' = "raised"
                 /\ UNCHANGED metadata_en
            ELSE /\ pc' = "meta_pt"
                 /\ metadata_en' = MetaResponse(Columns(data), "en", o)
    /\ UNCHANGED <<script, codes_list, svc, i, k, batch, all_data, data,
                   metadata_pt, df_meta_en, df_meta_pt, successful_series,
                   failed_series, metadata_list, series_data, meta_en, meta_pt, files>>

\* metadata_pt = sgs.metadata(data, language="pt"), outside any try
MetadataPtCall ==
    /\ pc = "meta_pt"
    /\ \E o \in MetaAnswers("pt") :
         /\ CalledMeta("pt", Columns(data), o)
         /\ IF o = "fail"
            THEN /\ pc' = "raised"
                 /\ UNCHANGED metadata_pt
            ELSE /\ pc' = "export"
                 /\ metadata_pt' = MetaResponse(Columns(data), "pt", o)
    /\ UNCHANGED <<script, codes_list, svc, i, k, batch, all_data, data,
                   metadata_en, df_meta_en, df_meta_pt, successful_series,
                   failed_series, metadata_list, series_data, meta_en, meta_pt, files>>

CsvFile(name, frame) == [name |-> name, rows |-> frame]

\* the two DataFrames and the two to_csv calls
ExportBoth ==
    /\ pc = "export"
    /\ df_meta_en' = metadata_en
    /\ df_meta_pt' = metadata_pt
    /\ files' = files \o <<CsvFile("bacen_metadata_en.csv", metadata_en),
                           CsvFile("bacen_metadata_pt.csv", metadata_pt)>>
    /\ log' = log \o <<Write("bacen_metadata_en.csv"), Write("bacen_metadata_pt.csv")>>
    /\ pc' = "done"
    /\ UNCHANGED <<script, codes_list, svc, i, k, batch, all_data, data,
                   metadata_en, metadata_pt, successful_series, failed_series,
                   metadata_list, series_data, meta_en, meta_pt, outcome, hist>>

----------------------------------------------------------------------------
(* get_bacen_metadata.py *)

\* a slice one code short: codes_list[i:i + batch_size - 1]
BatchOf_Short(codes, start) == Slice(codes, start, start + batch_size - 1)

\* batch = codes_list[i:i + batch_size]
BatchOf(codes, start) == Slice(codes, start, start + batch_size)

\* a stride one too long
NextStart_Skip(start) == start + batch_size + 1

\* range(0, len(codes_list), batch_size): the next start
NextStart(start) == start + batch_size

\* all_data = frame.to_dict() in place of all_data.update(...)
Merge_Replace(t, req, o) == ToDict(Frame(req, o.rows))

\* all_data.update(frame.to_dict()) after a request that answered
Merge(t, req, o) == Update(t, ToDict(Frame(req, o.rows)))

\* a fallback that throws its answer away
FallbackMerge_Drop(t, code, o) == t

\* the fallback try/except for one code
FallbackMerge(t, code, o) == IF o.ok THEN Merge(t, <<code>>, o) ELSE t

\* the export guard left out
HasRows_Always(frame) == TRUE

\* if len(data) > 0
HasRows(frame) == DataFrameLen(frame) > 0

\* a loop that runs the fallback after every batched request
BatchSucceeded_Never(o) == FALSE

\* try: batch_data = sgs.dataframe(batch, ...) did not raise
BatchSucceeded(o) == o.ok

\* one turn of the batch loop up to the end of the batched request
BatchRequest ==
    /\ script = "batch"
    /\ pc = "loop"
    /\ i < Len(codes_list)
    /\ LET b == BatchOf(codes_list, i) IN
       /\ batch' = b
       /\ \E o \in DataAnswers("batch", b) :
            /\ Called(DataCall("batch", b), "batch", b, o)
            /\ IF BatchSucceeded(o)
               THEN /\ all_data' = Merge(all_data, b, o)
                    /\ i' = NextStart(i)
                    /\ pc' = "loop"
               ELSE /\ pc' = "fallback"
                    /\ UNCHANGED <<all_data, i>>
    /\ k' = 0
    /\ UNCHANGED <<script, codes_list, svc, data, metadata_en, metadata_pt,
                   df_meta_en, df_meta_pt, successful_series, failed_series,
                   metadata_list, series_data, meta_en, meta_pt, files>>

\* a fallback loop that gives up at the first code that fails
FallbackOver_StopOnFailure(pos, group, o) == pos + 1 = Len(group) \/ ~o.ok

\* for code in batch: the turn at position pos was the last one
FallbackOver(pos, group, o) == pos + 1 = Len(group)

\* one turn of the fallback loop over the failed batch
BatchFallback ==
    /\ script = "batch"
    /\ pc = "fallback"
    /\ k < Len(batch)
    /\ LET code == batch[k + 1] IN
       \E o \in DataAnswers("single", <<code>>) :
            /\ Called(DataCall("single", <<code>>), "single", <<code>>, o)
            /\ all_data' = FallbackMerge(all_data, code, o)
            /\ IF FallbackOver(k, batch, o)
               THEN /\ pc' = "loop"
                    /\ i' = NextStart(i)
               ELSE UNCHANGED <<pc, i>>
    /\ k' = k + 1
    /\ UNCHANGED <<script, codes_list, svc, batch, data, metadata_en, metadata_pt,
                   df_meta_en, df_meta_pt, successful_series, failed_series,
                   metadata_list, series_data, meta_en, meta_pt, files>>

\* after the loop: data = pd.DataFrame(all_data) and the export guard
BatchBuild ==
    /\ script = "batch"
    /\ pc = "loop"
    /\ i >= Len(codes_list)
    /\ data' = all_data
    /\ pc' = IF HasRows(all_data) THEN "meta_en" ELSE "done"
    /\ UNCHANGED <<script, codes_list, svc, i, k, batch, all_data, metadata_en,
                   metadata_pt, df_meta_en, df_meta_pt, successful_series,
                   failed_series, metadata_list, series_data, meta_en, meta_pt, files,
                   log, outcome, hist>>

BatchMetaEn == script = "batch" /\ MetadataEnCall

BatchMetaPt == script = "batch" /\ MetadataPtCall

BatchExport == script = "batch" /\ ExportBoth

----------------------------------------------------------------------------
(* archive/get_bacen_metadata.py *)

\* data = sgs.dataframe(codes_list, ...), outside any try
ArchiveData ==
    /\ script = "archive"
    /\ pc = "data"
    /\ \E o \in DataAnswers("archive", codes_list) :
         /\ Called(DataCall("archive", codes_list), "archive", codes_list, o)
         /\ IF o.ok
            THEN /\ data' = Frame(codes_list, o.rows)
                 /\ pc' = "meta_en"
            ELSE /\ pc' = "raised"
                 /\ UNCHANGED data
    /\ UNCHANGED <<script, codes_list, svc, i, k, batch, all_data, metadata_en,
                   metadata_pt, df_meta_en, df_meta_pt, successful_series,
                   failed_series, metadata_list, series_data, meta_en, meta_pt, files>>

ArchiveMetaEn == script = "archive" /\ MetadataEnCall

ArchiveMetaPt == script = "archive" /\ MetadataPtCall

ArchiveExport == script = "archive" /\ ExportBoth

----------------------------------------------------------------------------
(* get_bacen_metadata_robust.py *)

\* codes_list[:3]
ProbeList(codes) == Slice(codes, 0, ProbeCount)

\* if i > 20: break
WithinLimit_OffByOne(idx) == idx <= Limit

\* if i >= 20: break
WithinLimit(idx) == idx < Limit

\* the delay taken on every turn
NeedsDelay_Always(idx) == TRUE

\* if i > 0: time.sleep(1)
NeedsDelay(idx) == idx > 0

\* a test of the columns only: a table without observations passes
HasData_ColumnsOnly(frame) == frame # <<>>

\* len(series_data) > 0 and not series_data.empty
HasData(frame) == DataFrameLen(frame) > 0 /\ frame # <<>>

\* meta and len(meta) > 0
Truthy(list) == list # <<>> /\ Len(list) > 0

\* dict.get(f) without the default: None for a missing key
Get_NoDefault(rec, f) == IF f \in DOMAIN rec THEN rec[f] ELSE "None"

\* dict.get(f, '')
Get(rec, f) == IF f \in DOMAIN rec THEN rec[f] ELSE ""

\* the dict literal meta_record
MetaRecord(code, en, pt) ==
    [code      |-> code,
     title_en  |-> Get(en[1], "title"),
     title_pt  |-> IF Truthy(pt) THEN Get(pt[1], "title") ELSE "",
     unit_en   |-> Get(en[1], "unit"),
     unit_pt   |-> IF Truthy(pt) THEN Get(pt[1], "unit") ELSE "",
     source_en |-> Get(en[1], "source"),
     source_pt |-> IF Truthy(pt) THEN Get(pt[1], "source") ELSE ""]

\* the record appended twice
WithRecord_Twice(list, code, en, pt) ==
    IF Truthy(en)
    THEN Append(Append(list, MetaRecord(code, en, pt)), MetaRecord(code, en, pt))
    ELSE list

\* if meta_en and len(meta_en) > 0: metadata_list.append(meta_record)
WithRecord(list, code, en, pt) ==
    IF Truthy(en) THEN Append(list, MetaRecord(code, en, pt)) ELSE list

\* one turn of the probe loop
RobustProbe ==
    /\ script = "robust"
    /\ pc = "probe"
    /\ k < Len(ProbeList(codes_list))
    /\ LET code == ProbeList(codes_list)[k + 1] IN
       \E o \in DataAnswers("probe", <<code>>) :
            Called(DataCall("probe", <<code>>), "probe", <<code>>, o)
    /\ k' = k + 1
    /\ UNCHANGED <<script, codes_list, svc, pc, i, batch, all_data, data,
                   metadata_en, metadata_pt, df_meta_en, df_meta_pt,
                   successful_series, failed_series, metadata_list, series_data,
                   meta_en, meta_pt, files>>

\* the probe loop is over; the three lists are created empty
RobustProbeDone ==
    /\ script = "robust"
    /\ pc = "probe"
    /\ k >= Len(ProbeList(codes_list))
    /\ successful_series' = <<>>
    /\ failed_series' = <<>>
    /\ metadata_list' = <<>>
    /\ i' = 0
    /\ pc' = "series"
    /\ UNCHANGED <<script, codes_list, svc, k, batch, all_data, data,
                   metadata_en, metadata_pt, df_meta_en, df_meta_pt, series_data,
                   meta_en, meta_pt, files, log, outcome, hist>>

\* the head of one turn of the main loop: limit check passed, delay
RobustIter ==
    /\ script = "robust"
    /\ pc = "series"
    /\ i < Len(codes_list)
    /\ WithinLimit(i)
    /\ log' = IF NeedsDelay(i) THEN Append(log, Sleep(Delay)) ELSE log
    /\ pc' = "data"
    /\ UNCHANGED <<script, codes_list, svc, i, k, batch, all_data, data,
                   metadata_en, metadata_pt, df_meta_en, df_meta_pt,
                   successful_series, failed_series, metadata_list, series_data,
                   meta_en, meta_pt, files, outcome, hist>>

\* if i >= 20: break
RobustBreak ==
    /\ script = "robust"
    /\ pc = "series"
    /\ i < Len(codes_list)
    /\ ~WithinLimit(i)
    /\ pc' = "summary"
    /\ UNCHANGED <<script, codes_list, svc, i, k, batch, all_data, data,
                   metadata_en, metadata_pt, df_meta_en, df_meta_pt,
                   successful_series, failed_series, metadata_list, series_data,
                   meta_en, meta_pt, files, log, outcome, hist>>

\* enumerate(codes_list) is exhausted
RobustExhausted ==
    /\ script = "robust"
    /\ pc = "series"
    /\ i >= Len(codes_list)
    /\ pc' = "summary"
    /\ UNCHANGED <<script, codes_list, svc, i, k, batch, all_data, data,
                   metadata_en, metadata_pt, df_meta_en, df_meta_pt,
                   successful_series, failed_series, metadata_list, series_data,
                   meta_en, meta_pt, files, log, outcome, hist>>

\* a failure branch that forgets the code
AfterDataFailure_Drop(list, code) == list

\* failed_series.append(code), in the else branch and in the outer except
AfterDataFailure(list, code) == Append(list, code)

\* series_data = sgs.dataframe([code], ...) and the branch on its result
RobustData ==
    /\ script = "robust"
    /\ pc = "data"
    /\ LET code == codes_list[i + 1] IN
       \E o \in DataAnswers("series", <<code>>) :
            /\ Called(DataCall("series", <<code>>), "series", <<code>>, o)
            /\ series_data' = IF o.ok THEN Frame(<<code>>, o.rows) ELSE series_data
            /\ IF o.ok /\ HasData(Frame(<<code>>, o.rows))
               THEN /\ pc' = "meta_en"
                    /\ UNCHANGED <<i, failed_series>>
               ELSE /\ failed_series' = AfterDataFailure(failed_series, code)
                    /\ i' = i + 1
                    /\ pc' = "series"
    /\ UNCHANGED <<script, codes_list, svc, k, batch, all_data, data,
                   metadata_en, metadata_pt, df_meta_en, df_meta_pt,
                   successful_series, metadata_list, meta_en, meta_pt, files>>

\* an inner except that forgets the code
AfterMetaFailure_Drop(list, code) == list

\* except Exception as meta_e: successful_series.append(code)
AfterMetaFailure(list, code) == Append(list, code)

\* meta_en = sgs.metadata(series_data)
RobustMetaEn ==
    /\ script = "robust"
    /\ pc = "meta_en"
    /\ LET code == codes_list[i + 1] IN
       \E o \in MetaAnswers("en") :
            /\ CalledMeta("en", Columns(series_data), o)
            /\ IF o = "fail"
               THEN /\ successful_series' = AfterMetaFailure(successful_series, code)
                    /\ i' = i + 1
                    /\ pc' = "series"
                    /\ UNCHANGED meta_en
               ELSE /\ meta_en' = MetaResponse(Columns(series_data), "en", o)
                    /\ pc' = "meta_pt"
                    /\ UNCHANGED <<i, successful_series>>
    /\ UNCHANGED <<script, codes_list, svc, k, batch, all_data, data,
                   metadata_en, metadata_pt, df_meta_en, df_meta_pt,
                   failed_series, metadata_list, series_data, meta_pt, files>>

\* meta_pt = sgs.metadata(series_data, language="pt"), the record and its
\* append to metadata_list
RobustMetaPt ==
    /\ script = "robust"
    /\ pc = "meta_pt"
    /\ LET code == codes_list[i + 1] IN
       \E o \in MetaAnswers("pt") :
            /\ CalledMeta("pt", Columns(series_data), o)
            /\ IF o = "fail"
               THEN /\ successful_series' = AfterMetaFailure(successful_series, code)
                    /\ i' = i + 1
                    /\ pc' = "series"
                    /\ UNCHANGED <<metadata_list, meta_pt>>
               ELSE /\ meta_pt' = MetaResponse(Columns(series_data), "pt", o)
                    /\ metadata_list' = WithRecord(metadata_list, code, meta_en, meta_pt')
                    /\ pc' = "success"
                    /\ UNCHANGED <<i, successful_series>>
    /\ UNCHANGED <<script, codes_list, svc, k, batch, all_data, data,
                   metadata_en, metadata_pt, df_meta_en, df_meta_pt,
                   failed_series, series_data, meta_en, files>>

\* successful_series.append(code) at the end of the inner try
AfterMetaSuccess(list, code) == Append(list, code)

\* the last statement of the inner try, after the record (if any) is appended
RobustSuccess ==
    /\ script = "robust"
    /\ pc = "success"
    /\ successful_series' = AfterMetaSuccess(successful_series, codes_list[i + 1])
    /\ i' = i + 1
    /\ pc' = "series"
    /\ UNCHANGED <<script, codes_list, svc, k, batch, all_data, data,
                   metadata_en, metadata_pt, df_meta_en, df_meta_pt,
                   failed_series, metadata_list, series_data, meta_en, meta_pt,
                   files, log, outcome, hist>>

\* the summary and the export of metadata_list
RobustSummary ==
    /\ script = "robust"
    /\ pc = "summary"
    /\ IF Len(metadata_list) > 0
       THEN /\ files' = Append(files, CsvFile("bacen_metadata_test.csv", metadata_list))
            /\ log' = Append(log, Write("bacen_metadata_test.csv"))
       ELSE UNCHANGED <<files, log>>
    /\ pc' = "done"
    /\ UNCHANGED <<script, codes_list, svc, i, k, batch, all_data, data,
                   metadata_en, metadata_pt, df_meta_en, df_meta_pt,
                   successful_series, failed_series, metadata_list, series_data,
                   meta_en, meta_pt, outcome, hist>>

----------------------------------------------------------------------------

Next ==
    \/ BatchRequest
    \/ BatchFallback
    \/ BatchBuild
    \/ BatchMetaEn
    \/ BatchMetaPt
    \/ BatchExport
    \/ RobustProbe
    \/ RobustProbeDone
    \/ RobustIter
    \/ RobustBreak
    \/ RobustExhausted
    \/ RobustData
    \/ RobustMetaEn
    \/ RobustMetaPt
    \/ RobustSuccess
    \/ RobustSummary
    \/ ArchiveData
    \/ ArchiveMetaEn
    \/ ArchiveMetaPt
    \/ ArchiveExport

Spec == Init /\ [][Next]_vars

NextBatch ==
    \/ BatchRequest
    \/ BatchFallback
    \/ BatchBuild
    \/ BatchMetaEn
    \/ BatchMetaPt
    \/ BatchExport

\* the batched script, each statement followed by the next: the interpreter
\* runs the script without pause, and a remote call returns or raises
FairBatch == InitBatch /\ [][NextBatch]_vars /\ WF_vars(NextBatch)

NextRecord ==
    \/ RobustProbe
    \/ RobustProbeDone
    \/ RobustIter
    \/ RobustExhausted
    \/ RobustData
    \/ RobustMetaEn
    \/ RobustMetaPt
    \/ RobustSuccess
    \/ RobustSummary

SpecRecord == InitRecord /\ [][NextRecord]_vars

----------------------------------------------------------------------------
(* Vocabulary of the properties *)

Count(s, x) == Cardinality({n \in DOMAIN s : s[n] = x})

IsDistinct(s) == \A x \in Range(s) : Count(s, x) = 1

Guarded == script \in {"batch", "robust"}

\* the list entries the script is to attempt
Attempted == IF script = "robust" THEN Slice(codes_list, 0, Limit) ELSE codes_list

Retrieved ==
    IF script = "robust" THEN Range(successful_series) ELSE Keys(all_data)

FailedSet ==
    IF script = "robust" THEN Range(failed_series)
    ELSE Range(codes_list) \ Keys(all_data)

IsSingleCall(e) == e.ev = "data" /\ e.at \in SingleSites

IsSeriesCall(e) == e.ev = "data" /\ e.at = "series"

IsSleep(e) == e.ev = "sleep"

SeriesCalls == SelectSeq(log, IsSeriesCall)

FirstSingleCall(m) == \A n \in 1..(m - 1) : ~IsSingleCall(log[n])

FirstSeriesCall(m) == \A n \in 1..(m - 1) : ~IsSeriesCall(log[n])

AfterSleep(m) == m > 1 /\ IsSleep(log[m - 1])

LastEvent == log[Len(log)]

----------------------------------------------------------------------------
(* C1: whatever calls of the remote service fail, the batched and the
   per-code script never end in an uncaught exception.  The batched script
   breaks it: sgs.metadata is called outside any try. *)
C1_NoUncaughtException == Guarded => pc # "raised"

(* C2, as stated: when the per-code run over a non-empty list is done, the
   successful and the failed codes are disjoint and together are the set of
   input codes. *)
C2_Original ==
    (script = "robust" /\ pc = "done" /\ codes_list # <<>>) =>
        /\ Range(successful_series) \cap Range(failed_series) = {}
        /\ Range(successful_series) \cup Range(failed_series) = Range(codes_list)

(* C2, amended: when the per-code run is done, every one of the first
   min(n, 20) list entries is recorded exactly once, in one of the two
   collections; so their union is the set of codes among the first 20 entries,
   and they are disjoint when those entries are pairwise distinct. *)
C2_PartitionOfAttempted ==
    (script = "robust" /\ pc = "done") =>
        /\ \A x \in Range(codes_list) \cup Range(successful_series)
                      \cup Range(failed_series) :
               Count(successful_series, x) + Count(failed_series, x)
                   = Count(Attempted, x)
        /\ Range(successful_series) \cup Range(failed_series) = Range(Attempted)
        /\ IsDistinct(Attempted) =>
               Range(successful_series) \cap Range(failed_series) = {}

C2_Witness ==
    /\ script = "robust" /\ pc = "done"
    /\ Len(codes_list) > Limit
    /\ successful_series # <<>>
    /\ failed_series # <<>>

(* C3: if every batched request failed and every single-code request
   answered, then once the batch loop is over every input code is a key of
   the combined table. *)
C3_FallbackRecoversAll ==
    (script = "batch" /\ pc \notin {"loop", "fallback"}
        /\ hist.batchAllFail /\ hist.singleAllOk) =>
        /\ Keys(all_data) = Range(codes_list)
        /\ data = all_data

C3_Witness ==
    /\ script = "batch" /\ pc = "done"
    /\ hist.batchAllFail /\ hist.singleAllOk
    /\ Len(codes_list) > batch_size
    /\ Keys(data) = Range(codes_list)

(* C4, as stated: if the service failed exactly the requests naming the code
   x, then at the end the failed set is {x} and every other input code is
   retrieved. *)
C4_Original ==
    \A x \in hist.onlyBad :
        (Guarded /\ pc = "done") =>
            /\ FailedSet = {x}
            /\ Retrieved = Range(codes_list) \ {x}

(* C4, amended: if the service failed exactly the requests naming the code x
   then, in the batched script, the codes missing from the combined table are
   {x}; in the per-code script, provided every answered data request carried
   at least one observation and x is among the first 20 entries, the failed
   set is {x} and the successful set is the other codes of the first 20
   entries. *)
C4_OnlyBadCodeFails ==
    \A x \in hist.onlyBad :
        (/\ Guarded /\ pc = "done"
         /\ script = "robust" => hist.noEmpty /\ x \in Range(Attempted)) =>
            /\ FailedSet = {x}
            /\ Retrieved = Range(Attempted) \ {x}

C4_Witness ==
    /\ script = "robust" /\ pc = "done"
    /\ Len(codes_list) > Limit
    /\ hist.noEmpty
    /\ \E x \in hist.onlyBad : failed_series = <<x>>
    /\ Len(successful_series) = Limit - 1

(* C5: on an empty input list no remote call is issued and every output is
   empty.  The archive script breaks it: it calls sgs.dataframe
   unconditionally. *)
C5_EmptyInputNoCalls ==
    codes_list = <<>> =>
        /\ log = <<>>
        /\ pc # "raised"
        /\ data = <<>> /\ all_data = <<>>
        /\ metadata_en = <<>> /\ metadata_pt = <<>> /\ metadata_list = <<>>
        /\ successful_series = <<>> /\ failed_series = <<>>
        /\ files = <<>>

(* C6: on a list longer than 20, the main loop of the per-code script
   requests exactly the first 20 entries, in order, the 20th being the last;
   no request of the run names an entry beyond them, and a code that occurs
   only beyond them is in neither collection. *)
C6_LimitHonoured ==
    (script = "robust" /\ Len(codes_list) > Limit) =>
        /\ i <= Limit
        /\ Len(SeriesCalls) <= Limit
        /\ \A m \in DOMAIN log :
               log[m].ev = "data" =>
                   Range(log[m].arg) \subseteq Range(Slice(codes_list, 0, Limit))
        /\ pc \in {"summary", "done"} =>
               /\ SeriesCalls = [m \in 1..Limit |->
                                     DataCall("series", <<codes_list[m]>>)]
               /\ Len(successful_series) + Len(failed_series) = Limit
               /\ \A x \in Range(codes_list) \ Range(Slice(codes_list, 0, Limit)) :
                      x \notin Range(successful_series) \cup Range(failed_series)

C6_Witness ==
    /\ script = "robust" /\ pc = "done"
    /\ Len(codes_list) > Limit
    /\ codes_list[Limit + 1] \notin Range(Slice(codes_list, 0, Limit))
    /\ Len(SeriesCalls) = Limit

(* C7: if every data request failed, the batched and the per-code script do
   not raise and never enter the metadata or export steps; the combined table is empty, no
   metadata request is issued, the metadata tables are empty, no file is
   written, and the per-code script ends with the attempted entries as its
   failed collection. *)
C7_AllDataRequestsFail ==
    (Guarded /\ hist.dataAllFail) =>
        /\ pc \notin {"raised", "meta_en", "meta_pt", "export"}
        /\ all_data = <<>> /\ data = <<>>
        /\ \A m \in DOMAIN log : log[m].ev \notin {"meta", "write"}
        /\ metadata_en = <<>> /\ metadata_pt = <<>>
        /\ df_meta_en = <<>> /\ df_meta_pt = <<>>
        /\ metadata_list = <<>>
        /\ successful_series = <<>>
        /\ files = <<>>
        /\ (script = "robust" /\ pc = "done") => failed_series = Attempted

C7_Witness ==
    /\ script = "robust" /\ pc = "done"
    /\ hist.dataAllFail
    /\ Len(failed_series) = Limit
    /\ files = <<>>

(* C8: in the batched script nothing retrieved is ever dropped, a batched
   request that answers puts its whole group into the combined table, and a
   failing bulk metadata request leaves the combined table as it is, leaves
   both metadata tables empty and no file written, and ends the run. *)
C8_MetadataFailureKeepsData ==
    [][script = "batch" =>
         /\ Keys(all_data) \subseteq Keys(all_data')
         /\ (pc = "loop" /\ pc' = "loop" /\ outcome' = "ok") =>
                Range(batch') \subseteq Keys(all_data')
         /\ (pc \in {"meta_en", "meta_pt"} /\ outcome' = "fail") =>
                /\ all_data' = all_data
                /\ data' = all_data
                /\ df_meta_en' = <<>> /\ df_meta_pt' = <<>>
                /\ files' = <<>>
                /\ pc' = "raised"
         /\ pc # "raised"]_vars

C8_Witness ==
    /\ script = "batch" /\ pc = "raised"
    /\ ~hist.batchAllFail
    /\ Len(codes_list) > batch_size
    /\ Keys(data) = Range(codes_list)
    /\ LastEvent.ev = "meta"
    /\ df_meta_en = <<>> /\ df_meta_pt = <<>>

(* C9: in the per-code script, a metadata request that fails (in either
   locale) appends the current code once to successful_series, leaves
   failed_series and metadata_list as they were and moves to the next entry;
   between turns the two collections hold one element per entry done. *)
C9_MetaFailureStillSuccessful ==
    /\ [][(script = "robust" /\ pc \in {"meta_en", "meta_pt"} /\ outcome' = "fail") =>
            /\ successful_series' = Append(successful_series, codes_list[i + 1])
            /\ failed_series' = failed_series
            /\ metadata_list' = metadata_list
            /\ i' = i + 1]_vars
    /\ []((script = "robust" /\ pc \in {"series", "summary", "done"}) =>
            Len(successful_series) + Len(failed_series) = i)

C9_Witness ==
    /\ script = "robust" /\ pc = "series"
    /\ outcome = "fail"
    /\ log # <<>> /\ LastEvent.ev = "meta" /\ LastEvent.at = "pt"
    /\ successful_series = <<codes_list[1]>>
    /\ failed_series = <<>>
    /\ metadata_list = <<>>

(* C10, as stated: in a run, a delay immediately precedes every single-code
   data request except the first one of the run. *)
C10_Original ==
    Guarded =>
        \A m \in DOMAIN log :
            IsSingleCall(log[m]) => (AfterSleep(m) <=> ~FirstSingleCall(m))

(* C10, amended: delays occur only in the main loop of the per-code script:
   a delay of 1 second immediately precedes every data request of that loop
   except the one for the first list entry, so exactly one delay separates
   two consecutive requests of the loop; the probe requests and the fallback
   requests of the batched script are issued with no delay. *)
C10_DelayBeforeLoopRequests ==
    Guarded =>
        \A m \in DOMAIN log :
            /\ IsSeriesCall(log[m]) => (AfterSleep(m) <=> ~FirstSeriesCall(m))
            /\ IsSleep(log[m]) =>
                   /\ log[m].arg = <<Delay>>
                   /\ script = "robust"
                   /\ IF m < Len(log) THEN IsSeriesCall(log[m + 1]) ELSE pc = "data"
            /\ (IsSingleCall(log[m]) /\ ~IsSeriesCall(log[m])) => ~AfterSleep(m)

C10_Witness ==
    /\ script = "robust" /\ pc = "done"
    /\ Len(codes_list) >= ProbeCount
    /\ Len(SelectSeq(log, IsSleep)) = Len(SeriesCalls) - 1
    /\ Len(SeriesCalls) >= ProbeCount

(* The groups of the batch loop, written out from the list alone *)

\* ceil(n / batch_size)
GroupCount == (Len(codes_list) + batch_size - 1) \div batch_size

Group(g) ==
    SubSeq(codes_list, (g - 1) * batch_size + 1, Min(g * batch_size, Len(codes_list)))

IsBatchCall(e) == e.ev = "data" /\ e.at = "batch"

IsFallbackCall(e) == e.ev = "data" /\ e.at = "single"

IsDataCall(e) == e.ev = "data"

BatchCalls == SelectSeq(log, IsBatchCall)

FallbackCalls == SelectSeq(log, IsFallbackCall)

LoopOver == pc \notin {"loop", "fallback"}

Ended == pc \in {"done", "raised"}

\* list positions named by a data request so far: those of the groups
\* requested as a batch
Covered == UNION {((g - 1) * batch_size + 1)..Min(g * batch_size, Len(codes_list)) :
                      g \in 1..Len(BatchCalls)}

----------------------------------------------------------------------------
(* C11: the batched script always comes to an end; when its loop is over
   every group of the list has been requested as a batch, in order, so every
   list position was named by a data request; a batched request that fails
   is followed by the single request of each code of its group in turn,
   whether or not those fail, and then by the next group. *)
C11_TerminatesAndCoversAll ==
    /\ <>Ended
    /\ [](LoopOver =>
            /\ Len(BatchCalls) = GroupCount
            /\ \A g \in 1..GroupCount : BatchCalls[g].arg = Group(g)
            /\ Covered = DOMAIN codes_list)
    /\ [][/\ (pc = "loop" /\ i < Len(codes_list) /\ outcome' = "fail") =>
               /\ pc' = "fallback" /\ k' = 0
               /\ batch' = Group(Len(BatchCalls'))
          /\ pc = "fallback" =>
               /\ LastEvent' = DataCall("single", <<batch[k + 1]>>)
               /\ k' = k + 1 /\ batch' = batch
               /\ IF k' < Len(batch)
                  THEN pc' = "fallback" /\ i' = i
                  ELSE pc' = "loop" /\ i' = i + batch_size]_vars

C11_Witness ==
    /\ pc = "done"
    /\ Len(codes_list) > batch_size
    /\ ~hist.batchAllFail /\ ~hist.singleAllOk /\ ~hist.dataAllFail
    /\ Len(FallbackCalls) = batch_size
    /\ Len(BatchCalls) = GroupCount

----------------------------------------------------------------------------
(* C12: every record the per-code script appends to metadata_list has exactly
   the seven fields code, title_en, title_pt, unit_en, unit_pt, source_en,
   source_pt; a field is the value the locale's answer gives it, and the empty
   string when the answer's first dict lacks it or (Portuguese) when the
   answer is the empty list; with a non-empty English answer the record is
   appended and the code counted successful whatever fields are missing. *)
RecordFields ==
    {"code", "title_en", "title_pt", "unit_en", "unit_pt", "source_en", "source_pt"}

\* the value of field f in the answer of one locale, "" where there is none
Given(answer, f) ==
    IF answer # <<>> /\ f \in DOMAIN answer[1] THEN answer[1][f] ELSE ""

C12_RecordHasSevenFields ==
    /\ [](\A n \in DOMAIN metadata_list : DOMAIN metadata_list[n] = RecordFields)
    /\ [][/\ metadata_list' # metadata_list =>
               /\ pc = "meta_pt"
               /\ Len(metadata_list') = Len(metadata_list) + 1
               /\ SubSeq(metadata_list', 1, Len(metadata_list)) = metadata_list
               /\ LET r == metadata_list'[Len(metadata_list')] IN
                    /\ r.code = codes_list[i + 1]
                    /\ r.title_en = Given(meta_en, "title")
                    /\ r.unit_en = Given(meta_en, "unit")
                    /\ r.source_en = Given(meta_en, "source")
                    /\ r.title_pt = Given(meta_pt', "title")
                    /\ r.unit_pt = Given(meta_pt', "unit")
                    /\ r.source_pt = Given(meta_pt', "source")
          /\ (pc = "meta_pt" /\ outcome' = "ok" /\ meta_en # <<>>) =>
               /\ Len(metadata_list') = Len(metadata_list) + 1
               /\ pc' = "success"
          /\ pc = "success" =>
               /\ successful_series' = Append(successful_series, codes_list[i + 1])
               /\ failed_series' = failed_series
               /\ metadata_list' = metadata_list]_vars

\* a record built from an English answer without a unit and an empty
\* Portuguese answer
C12_Witness ==
    /\ script = "robust"
    /\ Len(metadata_list) = 1
    /\ meta_en # <<>> /\ "unit" \notin DOMAIN meta_en[1] /\ "title" \in DOMAIN meta_en[1]
    /\ meta_pt = <<>>
    /\ metadata_list[1].title_en = "Title"
    /\ metadata_list[1].unit_en = ""
    /\ metadata_list[1].title_pt = ""

----------------------------------------------------------------------------
(* C13: the groups the batch loop forms, in the order it processes them
   (the arguments of its batched requests), are consecutive slices of
   codes_list: each has between 1 and batch_size codes, every group but the
   last has exactly batch_size, the groups formed so far concatenate to a
   prefix of codes_list, and once the loop is over to codes_list itself. *)
RECURSIVE Concat(_)
Concat(ss) == IF ss = <<>> THEN <<>> ELSE Head(ss) \o Concat(Tail(ss))

\* the groups formed so far, in processing order
Groups == [g \in DOMAIN BatchCalls |-> BatchCalls[g].arg]

C13_GroupsPartitionTheList ==
    script = "batch" =>
        /\ \A g \in DOMAIN Groups :
             /\ Len(Groups[g]) \in 1..batch_size
             /\ g < Len(Groups) => Len(Groups[g]) = batch_size
        /\ Len(Concat(Groups)) <= Len(codes_list)
        /\ Concat(Groups) = SubSeq(codes_list, 1, Len(Concat(Groups)))
        /\ Len(Concat(Groups)) >= Min(i, Len(codes_list))
        /\ pc = "fallback" => batch = Groups[Len(Groups)]
        /\ LoopOver => Concat(Groups) = codes_list

\* three groups, the last one shorter, with repeated codes in the list
C13_Witness ==
    /\ script = "batch"
    /\ LoopOver
    /\ Len(Groups) = 3
    /\ Len(Groups[3]) = 1
    /\ ~IsDistinct(codes_list)

----------------------------------------------------------------------------
(* C14: in the batched script the bulk metadata requests come only after
   every data request of the loop (batched and fallback); when the run has
   ended both have been issued if and only if the combined table has
   observations; the English request precedes the Portuguese one and both
   are made for every retrieved code.  The batched script breaks the "if":
   a raising English request ends the run before the Portuguese one. *)
IsMetaCall(e) == e.ev = "meta"

Issued(lang) == \E n \in DOMAIN log : log[n] = MetaCall(lang, Columns(all_data))

C14_BulkMetadataIffData ==
    script = "batch" =>
        /\ \A m, n \in DOMAIN log :
             (m < n /\ IsMetaCall(log[m])) => ~IsDataCall(log[n])
        /\ (\E n \in DOMAIN log : IsMetaCall(log[n])) => LoopOver
        /\ \A n \in DOMAIN log :
             IsMetaCall(log[n]) =>
                /\ Range(log[n].arg) = Retrieved
                /\ log[n].at = "pt" => \E m \in 1..(n - 1) : log[m].at = "en"
        /\ Ended => ((Issued("en") /\ Issued("pt")) <=> HasRows(data))

----------------------------------------------------------------------------
(* C15: in the batched script a batched request that answers puts every code
   of its group in the combined table and no single request is made for that
   group; there is exactly one batched request per group; single requests
   are made only in the fallback of the group whose batched request has just
   failed, in list order and at most once per list position; so there are
   never more than ceil(n / batch_size) + n data requests. *)
DataCalls == SelectSeq(log, IsDataCall)

RECURSIVE GroupByGroup(_, _, _)
\* d is made of the batched request of group g + 1, g + 2, ... in turn, each
\* followed by the single requests of the first codes of its group, of all
\* of them or of none when another group follows; j single requests of
\* group g come before d
GroupByGroup(d, g, j) ==
    IF d = <<>> THEN TRUE
    ELSE IF IsBatchCall(Head(d))
         THEN /\ g = 0 \/ j = 0 \/ j = Len(Group(g))
              /\ g + 1 <= GroupCount
              /\ Head(d).arg = Group(g + 1)
              /\ GroupByGroup(Tail(d), g + 1, 0)
         ELSE /\ g >= 1
              /\ j < Len(Group(g))
              /\ Head(d) = DataCall("single", <<Group(g)[j + 1]>>)
              /\ GroupByGroup(Tail(d), g, j + 1)

C15_OneBatchedRequestPerGroup ==
    /\ [](script = "batch" =>
            /\ GroupByGroup(DataCalls, 0, 0)
            /\ Len(BatchCalls) <= GroupCount
            /\ LoopOver => Len(BatchCalls) = GroupCount
            /\ Len(FallbackCalls) <= Len(codes_list)
            /\ Len(DataCalls) <= GroupCount + Len(codes_list))
    /\ [][script = "batch" =>
            /\ (Len(DataCalls') > Len(DataCalls) /\ IsFallbackCall(LastEvent')) =>
                  /\ pc = "fallback"
                  /\ batch = BatchCalls[Len(BatchCalls)].arg
                  /\ BatchCalls' = BatchCalls
            /\ (pc = "loop" /\ pc' = "fallback") =>
                  /\ outcome' = "fail"
                  /\ IsBatchCall(LastEvent')
                  /\ all_data' = all_data
            /\ (pc = "loop" /\ i < Len(codes_list) /\ outcome' = "ok") =>
                  /\ pc' = "loop"
                  /\ i' = i + batch_size
                  /\ Range(LastEvent'.arg) \subseteq Keys(all_data')
                  /\ Len(DataCalls') = Len(DataCalls) + 1]_vars

\* of three groups one was answered as a batch and one went through the
\* fallback
C15_Witness ==
    /\ script = "batch"
    /\ LoopOver
    /\ Len(BatchCalls) = 3
    /\ Len(FallbackCalls) = batch_size
    /\ Len(DataCalls) = 3 + batch_size
    /\ Keys(all_data) # {}

----------------------------------------------------------------------------
(* C16, as stated: in every reachable state of the per-code script every
   code with a record in metadata_list is in successful_series, and
   metadata_list is never longer than successful_series.  It fails between
   metadata_list.append(meta_record) and successful_series.append(code). *)
RecordCodes == [n \in DOMAIN metadata_list |-> metadata_list[n].code]

C16_Original ==
    script = "robust" =>
        /\ Range(RecordCodes) \subseteq Range(successful_series)
        /\ Len(metadata_list) <= Len(successful_series)

\* a record has been appended for the code being processed and
\* successful_series.append(code) is the next statement
RecordPending == script = "robust" /\ pc = "success" /\ Truthy(meta_en)

\* the records of the codes whose turn of the loop is complete
SettledCodes ==
    IF RecordPending THEN SubSeq(RecordCodes, 1, Len(RecordCodes) - 1)
    ELSE RecordCodes

(* C16, amended: in every state of the per-code script except the one between
   metadata_list.append(meta_record) and successful_series.append(code),
   every code with a record is in successful_series (as many times at least
   as it has records) and metadata_list is no longer than successful_series
   nor than the number of positions processed.  In the excepted state this
   holds of all records but the last, the last record is that of the code
   being processed, and the next statement appends that code to
   successful_series, so metadata_list is never longer than
   successful_series by more than one.  A list position adds at most one
   record. *)
C16_RecordsAreOfSuccessfulCodes ==
    /\ [](script = "robust" =>
            /\ Range(SettledCodes) \subseteq Range(successful_series)
            /\ \A x \in Range(SettledCodes) :
                 Count(SettledCodes, x) <= Count(successful_series, x)
            /\ Len(SettledCodes) <= Len(successful_series)
            /\ Len(SettledCodes) <= i
            /\ Len(metadata_list) <= Len(successful_series) + 1
            /\ RecordPending =>
                 /\ Len(RecordCodes) = Len(SettledCodes) + 1
                 /\ RecordCodes[Len(RecordCodes)] = codes_list[i + 1])
    /\ [][script = "robust" =>
            /\ metadata_list' # metadata_list =>
                 /\ pc = "meta_pt" /\ pc' = "success"
                 /\ Len(metadata_list') = Len(metadata_list) + 1
                 /\ SubSeq(RecordCodes', 1, Len(metadata_list)) = RecordCodes
                 /\ RecordCodes'[Len(metadata_list')] = codes_list[i + 1]
                 /\ i' = i
            /\ pc = "success" =>
                 /\ successful_series' = Append(successful_series, codes_list[i + 1])
                 /\ metadata_list' = metadata_list
                 /\ i' = i + 1]_vars

\* the second code's record is appended and the code is not yet in
\* successful_series; the first code was successful without a record
C16_Witness ==
    /\ RecordPending
    /\ i = 1
    /\ Len(metadata_list) = 1
    /\ Len(successful_series) = 1
    /\ codes_list[2] \notin Range(successful_series)

----------------------------------------------------------------------------
(* C17: in the per-code script a data request that answers with a table
   without observations puts the code in failed_series, not in
   successful_series, and no metadata request is made for it; a code enters
   successful_series, and a metadata request is made, only while the table
   last answered for that code has at least one observation. *)
HasObservations(frame, code) ==
    \E n \in DOMAIN frame : frame[n].code = code /\ frame[n].rows # {}

C17_EmptyAnswerIsFailure ==
    /\ [](( script = "robust" /\ pc \in {"meta_en", "meta_pt", "success"}) =>
             HasObservations(series_data, codes_list[i + 1]))
    /\ [][script = "robust" =>
            /\ (pc = "data" /\ outcome' = "ok"
                  /\ ~HasObservations(series_data', codes_list[i + 1])) =>
                  /\ failed_series' = Append(failed_series, codes_list[i + 1])
                  /\ successful_series' = successful_series
                  /\ log' = Append(log, DataCall("series", <<codes_list[i + 1]>>))
                  /\ pc' = "series" /\ i' = i + 1
            /\ (Len(log') > Len(log) /\ IsMetaCall(LastEvent')) =>
                  /\ HasObservations(series_data, codes_list[i + 1])
                  /\ LastEvent'.arg = <<codes_list[i + 1]>>
            /\ successful_series' # successful_series =>
                  /\ pc \in {"meta_en", "meta_pt", "success"}
                  /\ successful_series' = Append(successful_series, codes_list[i + 1])
                  /\ HasObservations(series_data, codes_list[i + 1])
                  /\ failed_series' = failed_series]_vars

\* the only request of the loop was answered without observations
C17_Witness ==
    /\ script = "robust"
    /\ pc = "done"
    /\ Len(codes_list) = 1
    /\ outcome = "ok"
    /\ series_data # <<>>
    /\ ~HasObservations(series_data, codes_list[1])
    /\ failed_series = codes_list
    /\ successful_series = <<>>
    /\ IsSeriesCall(LastEvent)

====
